---- MODULE Spec2Model ----
(***************************************************************************)
(* OpenAPIService (src/src/swagger/OpenAPIService.ts): the document        *)
(* accessor and the schema reference resolver of gengen.                   *)
(*                                                                         *)
(* Encoding of JavaScript values:                                          *)
(*   - a string is a sequence of tokens ("/a/u" is <<"/","a","/","u">>),   *)
(*     so that split, endsWith, first and last are computed;               *)
(*   - an object is a function from its keys to its values; an optional    *)
(*     field is a key that is absent from the DOMAIN;                      *)
(*   - an object whose key order matters (paths, properties) is the        *)
(*     sequence of its entries in insertion order;                         *)
(*   - an array is a sequence; `undefined` is the value Undefined;         *)
(*   - a call either returns ([status |-> "ok", value |-> v]) or throws    *)
(*     ([status |-> "TypeError"], [status |-> "RangeError"], ...).         *)
(***************************************************************************)
EXTENDS Integers, Sequences, FiniteSets, TLC

(***************************************************************************)
(* Bounds of the model.                                                    *)
(***************************************************************************)
\* depth of nested getReferencesByObject frames the engine's stack holds
StackLimit == 4
\* largest number of entries of the paths mapping
MaxPaths == 2
\* longest version string, in characters
MaxVersionLen == 3

\* const SUPPORTED_VERSION = 3;
SUPPORTED_VERSION == 3

(***************************************************************************)
(* JavaScript values and built-ins.                                        *)
(***************************************************************************)
Undefined == [undefined |-> TRUE]

IsUndefined(v) == DOMAIN v = {"undefined"}

\* obj[key]: the value under the key, undefined when the key is absent
Get(obj, key) == IF key \in DOMAIN obj THEN obj[key] ELSE Undefined

Ok(v) == [status |-> "ok", value |-> v]

Throw(e) == [status |-> e]

\* (SUPPORTED_VERSION).toString()
toString(n) == IF n = 3 THEN <<"3">> ELSE IF n = 2 THEN <<"2">> ELSE <<"?">>

\* String.prototype.split(sep) for a one-token separator
RECURSIVE splitFrom(_, _, _, _)
splitFrom(s, sep, i, cur) ==
    IF i > Len(s) THEN <<cur>>
    ELSE IF s[i] = sep THEN <<cur>> \o splitFrom(s, sep, i + 1, <<>>)
    ELSE splitFrom(s, sep, i + 1, Append(cur, s[i]))

split(s, sep) == splitFrom(s, sep, 1, <<>>)

\* String.prototype.endsWith
endsWith(key, endpoint) ==
    /\ Len(endpoint) <= Len(key)
    /\ SubSeq(key, Len(key) - Len(endpoint) + 1, Len(key)) = endpoint

\* utils: first and last element of an array
first(arr) == IF Len(arr) = 0 THEN Undefined ELSE arr[1]

last(arr) == IF Len(arr) = 0 THEN Undefined ELSE arr[Len(arr)]

\* Array.prototype.sort() on strings: ascending by code unit
CodeUnit(c) ==
    CASE c = "." -> 46 [] c = "/" -> 47 [] c = "0" -> 48 [] c = "2" -> 50
      [] c = "3" -> 51 [] c = "a" -> 97 [] c = "u" -> 117 [] OTHER -> 120

RECURSIVE StrLess(_, _)
StrLess(s, t) ==
    IF Len(t) = 0 THEN FALSE
    ELSE IF Len(s) = 0 THEN TRUE
    ELSE IF CodeUnit(s[1]) # CodeUnit(t[1]) THEN CodeUnit(s[1]) < CodeUnit(t[1])
    ELSE StrLess(Tail(s), Tail(t))

RECURSIVE insertSorted(_, _)
insertSorted(sorted, s) ==
    IF Len(sorted) = 0 THEN <<s>>
    ELSE IF StrLess(s, sorted[1]) THEN <<s>> \o sorted
    ELSE <<sorted[1]>> \o insertSorted(Tail(sorted), s)

RECURSIVE sort(_)
sort(arr) == IF Len(arr) = 0 THEN <<>> ELSE insertSorted(sort(Tail(arr)), arr[1])

(***************************************************************************)
(* OpenAPITypesGuard: the shape predicates of the schema union.            *)
(***************************************************************************)
isReference(schema) == "ref" \in DOMAIN schema

isCollection(schema) == "type" \in DOMAIN schema /\ schema.type = "array"

isObject(schema) == "type" \in DOMAIN schema /\ schema.type = "object"

isAllOf(schema) == "allOf" \in DOMAIN schema

(***************************************************************************)
(* Schema constructors.                                                    *)
(***************************************************************************)
Prim == [type |-> "string"]

\* {$ref: "#/components/schemas/<name>"}
Ref(name) == [ref |-> <<"#", "/", "components", "/", "schemas", "/">> \o name]

Coll(items) == [type |-> "array", items |-> items]

Obj(properties) == [type |-> "object", properties |-> properties]

AllOf(list) == [allOf |-> list]

(***************************************************************************)
(* Document accessor.                                                      *)
(***************************************************************************)
\* a || b
JsOr(a, b) == IF IsUndefined(a) THEN b ELSE a

\* a string value, where undefined is possible too
JsString(s) == [string |-> s]

\* a version check that looks at the first character only
majorVersion_FirstChar(spec) ==
    IF "openapi" \notin DOMAIN spec \/ Len(spec.openapi) = 0 THEN Undefined
    ELSE JsString(<<spec.openapi[1]>>)

\* private get majorVersion()
majorVersion(spec) ==
    IF "openapi" \notin DOMAIN spec \/ Len(spec.openapi) = 0 THEN Undefined
    ELSE JsString(first(split(spec.openapi, ".")))

\* the check of the constructor: TRUE when it throws
constructorThrows(spec) == majorVersion(spec) # JsString(toString(SUPPORTED_VERSION))

\* Object.keys(this.spec.paths)
pathKeys(spec) == [i \in 1..Len(spec.paths) |-> spec.paths[i].key]

getEndpoints(spec) ==
    IF "paths" \notin DOMAIN spec THEN Ok(<<>>)
    ELSE Ok(sort(pathKeys(spec)))

\* a lookup that keeps the last matching entry instead of the first
findPath_LastMatch(spec, endpoint) ==
    LET hits == {i \in 1..Len(spec.paths) : endsWith(spec.paths[i].key, endpoint)}
    IN  IF hits = {} THEN Undefined
        ELSE spec.paths[CHOOSE i \in hits : \A j \in hits : i >= j]

\* Object.entries(this.spec.paths).find(([key]) => key.endsWith(endpoint))
findPath(spec, endpoint) ==
    LET hits == {i \in 1..Len(spec.paths) : endsWith(spec.paths[i].key, endpoint)}
    IN  IF hits = {} THEN Undefined
        ELSE spec.paths[CHOOSE i \in hits : \A j \in hits : i <= j]

\* a selection that prefers POST to GET
selectOperation_PostFirst(pathItem) ==
    JsOr(Get(pathItem, "post"),
         JsOr(Get(pathItem, "get"), JsOr(Get(pathItem, "put"), Get(pathItem, "delete"))))

\* pathItem.get || pathItem.post || pathItem.put || pathItem.delete
selectOperation(pathItem) ==
    JsOr(Get(pathItem, "get"),
         JsOr(Get(pathItem, "post"), JsOr(Get(pathItem, "put"), Get(pathItem, "delete"))))

getOperationByEndpoint(spec, endpoint) ==
    IF "paths" \notin DOMAIN spec THEN Undefined
    ELSE LET path == findPath(spec, endpoint)
         IN  IF IsUndefined(path) THEN Undefined ELSE selectOperation(path.item)

\* this.getOperationByEndpoint(endpoint)?.tags ?? []
getTagsByEndpoint(spec, endpoint) ==
    LET operation == getOperationByEndpoint(spec, endpoint)
    IN  IF IsUndefined(operation) \/ "tags" \notin DOMAIN operation THEN Ok(<<>>)
        ELSE Ok(operation.tags)

(***************************************************************************)
(* Reference resolver.                                                     *)
(***************************************************************************)
\* last(reference.$ref.split('/')), for a reference that has a $ref
getSchemaKey(reference) == last(split(reference.ref, "/"))

\* this.spec.components.schemas[key]
lookupSchema(spec, key) ==
    IF "components" \notin DOMAIN spec THEN Throw("TypeError")
    ELSE IF "schemas" \notin DOMAIN spec.components THEN Throw("TypeError")
    ELSE Ok(Get(spec.components.schemas, key))

\* the references one property contributes (the if / else-if chain)
propertyRefsOf(z) ==
    IF isCollection(z) /\ isReference(Get(z, "items")) THEN <<z.items>>
    ELSE IF isReference(z) THEN <<z>>
    ELSE IF isAllOf(z) THEN z.allOf
    ELSE <<>>

RECURSIVE getReferencesByObject(_, _, _)
RECURSIVE forEachProperty(_, _, _, _, _)
RECURSIVE forEachPropertyRef(_, _, _, _, _)
RECURSIVE forEachPropertyRef_NoRecursion(_, _, _, _, _)

\* a resolver that scans the properties of an object without descending
forEachPropertyRef_NoRecursion(spec, propertyRefs, j, refs, depth) ==
    IF j > Len(propertyRefs) THEN Ok(refs)
    ELSE IF ~isReference(propertyRefs[j]) THEN Throw("TypeError")
    ELSE LET schema == lookupSchema(spec, getSchemaKey(propertyRefs[j]))
         IN  IF schema.status # "ok" THEN schema
             ELSE forEachPropertyRef_NoRecursion(spec, propertyRefs, j + 1,
                                                 Append(refs, propertyRefs[j]), depth)

\* propertyRefs.forEach((x) => { ... }) from element j on; refs is the array
\* of the enclosing getReferencesByObject frame, depth that frame's depth
forEachPropertyRef(spec, propertyRefs, j, refs, depth) ==
    IF j > Len(propertyRefs) THEN Ok(refs)
    ELSE LET x == propertyRefs[j]
             pushed == Append(refs, x)
         IN  IF ~isReference(x) THEN Throw("TypeError")
             ELSE LET schema == lookupSchema(spec, getSchemaKey(x))
                  IN  IF schema.status # "ok" THEN schema
                      ELSE IF isObject(schema.value)
                      THEN LET inner == getReferencesByObject(spec, schema.value, depth + 1)
                           IN  IF inner.status # "ok" THEN inner
                               ELSE forEachPropertyRef(spec, propertyRefs, j + 1,
                                                       pushed \o inner.value, depth)
                      ELSE forEachPropertyRef(spec, propertyRefs, j + 1, pushed, depth)

\* Object.values(object.properties || []).forEach((z) => { ... }) from value i on
forEachProperty(spec, values, i, refs, depth) ==
    IF i > Len(values) THEN Ok(refs)
    ELSE LET r == forEachPropertyRef(spec, propertyRefsOf(values[i]), 1, refs, depth)
         IN  IF r.status # "ok" THEN r
             ELSE forEachProperty(spec, values, i + 1, r.value, depth)

\* private getReferencesByObject(object); there is no cycle guard, so a frame
\* beyond the stack the engine has ends the call with a RangeError
getReferencesByObject(spec, object, depth) ==
    IF depth > StackLimit THEN Throw("RangeError")
    ELSE forEachProperty(spec,
                         IF "properties" \in DOMAIN object THEN object.properties ELSE <<>>,
                         1, <<>>, depth)

\* private getSchemaFromContent(refs, schema): the array after the call
getSchemaFromContent(refs, schema) ==
    IF isCollection(schema) /\ isReference(Get(schema, "items")) THEN Append(refs, schema.items)
    ELSE IF isReference(schema) THEN Append(refs, schema)
    ELSE refs

\* a reader that falls back to the XML media type when there is no JSON one
jsonSchemaOf_AnyMediaType(content) ==
    LET media == JsOr(Get(content, "application/json"), Get(content, "application/xml"))
    IN  IF IsUndefined(media) THEN Undefined ELSE Get(media, "schema")

\* content?.['application/json']?.schema
jsonSchemaOf(content) ==
    LET media == Get(content, "application/json")
    IN  IF IsUndefined(media) THEN Undefined ELSE Get(media, "schema")

\* operation.parameters?.forEach(...)
parameterRefs(operation) ==
    IF "parameters" \notin DOMAIN operation THEN <<>>
    ELSE LET schemas == [i \in 1..Len(operation.parameters) |->
                            Get(operation.parameters[i], "schema")]
         IN  SelectSeq(schemas, isReference)

\* private getReferencesByOperation(operation)
getReferencesByOperation(operation) ==
    LET refs0 == parameterRefs(operation)
    IN  IF "requestBody" \in DOMAIN operation /\ "content" \notin DOMAIN operation.requestBody
        THEN Throw("TypeError")
        ELSE LET refs1 == getSchemaFromContent(refs0,
                              IF "requestBody" \in DOMAIN operation
                              THEN jsonSchemaOf(operation.requestBody.content)
                              ELSE Undefined)
             IN  IF "responses" \notin DOMAIN operation
                    \/ "200" \notin DOMAIN operation.responses
                 THEN Throw("TypeError")
                 ELSE Ok(getSchemaFromContent(refs1,
                             IF "content" \in DOMAIN operation.responses["200"]
                             THEN jsonSchemaOf(operation.responses["200"].content)
                             ELSE Undefined))

\* new Set<string>(names): the distinct names in order of first occurrence
RECURSIVE dedupe(_)
dedupe(names) ==
    IF Len(names) = 0 THEN <<>>
    ELSE LET front == dedupe(SubSeq(names, 1, Len(names) - 1))
             z == names[Len(names)]
         IN  IF \E i \in 1..Len(front) : front[i] = z THEN front ELSE Append(front, z)

Range(seq) == {seq[i] : i \in 1..Len(seq)}

RECURSIVE forEachKey(_, _, _, _)
\* keys.forEach((z) => { ... }) of getSchemas from key i on: keysFromObjects
forEachKey(spec, keys, i, keysFromObjects) ==
    IF i > Len(keys) THEN Ok(keysFromObjects)
    ELSE LET schema == lookupSchema(spec, keys[i])
         IN  IF schema.status # "ok" THEN schema
             ELSE IF isObject(schema.value)
             THEN LET refs == getReferencesByObject(spec, schema.value, 1)
                  IN  IF refs.status # "ok" THEN refs
                      ELSE forEachKey(spec, keys, i + 1,
                               keysFromObjects \cup
                                   {getSchemaKey(refs.value[n]) : n \in 1..Len(refs.value)})
             ELSE forEachKey(spec, keys, i + 1, keysFromObjects)

\* private getSchemas(refs): the mapping from each key to schemas[key]
getSchemas(spec, refs) ==
    LET keys == dedupe([i \in 1..Len(refs) |-> getSchemaKey(refs[i])])
        keysFromObjects == forEachKey(spec, keys, 1, {})
    IN  IF keysFromObjects.status # "ok" THEN keysFromObjects
        ELSE Ok([key \in Range(keys) \cup keysFromObjects.value |->
                    Get(spec.components.schemas, key)])

\* {...store, ...added}
spread(store, added) ==
    [key \in DOMAIN store \cup DOMAIN added |->
        IF key \in DOMAIN added THEN added[key] ELSE store[key]]

\* a reducer that starts over at an endpoint without an operation
schemasReducer_DropOnMiss(spec, store, operation) ==
    IF IsUndefined(operation) THEN Ok(<<>>)
    ELSE LET refs == getReferencesByOperation(operation)
         IN  IF refs.status # "ok" THEN refs
             ELSE LET schemas == getSchemas(spec, refs.value)
                  IN  IF schemas.status # "ok" THEN schemas
                      ELSE Ok(spread(store, schemas.value))

\* the callback of the reduce of getSchemasByEndpoints
schemasReducer(spec, store, operation) ==
    IF IsUndefined(operation) THEN Ok(store)
    ELSE LET refs == getReferencesByOperation(operation)
         IN  IF refs.status # "ok" THEN refs
             ELSE LET schemas == getSchemas(spec, refs.value)
                  IN  IF schemas.status # "ok" THEN schemas
                      ELSE Ok(spread(store, schemas.value))

RECURSIVE reduceSchemas(_, _, _, _)
reduceSchemas(spec, operations, i, store) ==
    IF i > Len(operations) THEN Ok(store)
    ELSE LET next == schemasReducer(spec, store, operations[i])
         IN  IF next.status # "ok" THEN next
             ELSE reduceSchemas(spec, operations, i + 1, next.value)

\* public getSchemasByEndpoints(endpoints); endpoints is the Set in insertion order
getSchemasByEndpoints(spec, endpoints) ==
    IF Len(endpoints) = 0 THEN Ok(<<>>)
    ELSE reduceSchemas(spec,
             [i \in 1..Len(endpoints) |-> getOperationByEndpoint(spec, endpoints[i])],
             1, <<>>)

\* the callback of the reduce of getOperationsByEndpoints
operationsReducer(spec, store, endpoint) ==
    LET operation == getOperationByEndpoint(spec, endpoint)
    IN  IF IsUndefined(operation) THEN store
        ELSE [key \in DOMAIN store \cup {endpoint} |->
                 IF key = endpoint THEN operation ELSE store[key]]

RECURSIVE reduceOperations(_, _, _, _)
reduceOperations(spec, endpoints, i, store) ==
    IF i > Len(endpoints) THEN store
    ELSE reduceOperations(spec, endpoints, i + 1, operationsReducer(spec, store, endpoints[i]))

\* public getOperationsByEndpoints(endpoints)
getOperationsByEndpoints(spec, endpoints) ==
    IF Len(endpoints) = 0 THEN Ok(<<>>)
    ELSE Ok(reduceOperations(spec, endpoints, 1, <<>>))

(***************************************************************************)
(* The documents and the arguments the service is run on.                  *)
(***************************************************************************)
A == <<"A">>
B == <<"B">>
C == <<"C">>

GraphNames == {A, B, C}

Methods == {"get", "post", "put", "delete"}

\* the registered path keys: "/u", "/a/u", "/a", "/u/a"
PathKeys == {<<"/", "u">>, <<"/", "a", "/", "u">>, <<"/", "a">>, <<"/", "u", "/", "a">>}

\* the endpoint strings the queries are called with: "/u", "/a/u"
EndpointArgs == {<<"/", "u">>, <<"/", "a", "/", "u">>}

\* the endpoint strings tagsForEndpoint is called with: also "" and "u"
EndpointStrings == EndpointArgs \cup {<<>>, <<"u">>}

\* the sequences of distinct elements of S of length at most n
RECURSIVE DistinctSeqs(_, _)
DistinctSeqs(S, n) ==
    IF n = 0 THEN {<<>>}
    ELSE LET shorter == DistinctSeqs(S, n - 1)
         IN  shorter \cup UNION {{Append(q, x) : x \in S \ Range(q)} :
                                    q \in {t \in shorter : Len(t) = n - 1}}

\* every Set<string> over the endpoint strings, as its insertion order
EndpointSets == DistinctSeqs(EndpointArgs, Cardinality(EndpointArgs))

JsonContent(schema) == "application/json" :> [schema |-> schema]

OkResponses == "200" :> [description |-> "ok"]

\* the operation of a method under a path key: its tags name both, and its
\* request body refers to a schema that depends on the method; a DELETE has
\* no request body and no entry for status 200
RefOfMethod(method) ==
    CASE method = "get" -> Ref(A) [] method = "post" -> Ref(B) [] OTHER -> Ref(C)

OperationOf(key, method) ==
    IF method = "delete"
    THEN [tags |-> <<key, <<method>>>>, responses |-> "204" :> [description |-> "none"]]
    ELSE [tags |-> <<key, <<method>>>>,
          requestBody |-> [content |-> JsonContent(RefOfMethod(method))],
          responses |-> OkResponses]

PathItemOf(key, methods) ==
    [summary |-> key] @@ [m \in methods |-> OperationOf(key, m)]

PathEntry(key, methods) == [key |-> key, item |-> PathItemOf(key, methods)]

BaseSchemas == (A :> Obj(<<Ref(B)>>)) @@ (B :> Prim) @@ (C :> Prim)

BaseComponents == [schemas |-> BaseSchemas]

BaseVersion == <<"3", ".", "0">>

BasePaths == <<PathEntry(<<"/", "u">>, {"get"})>>

\* method sets of the path items of documents with several paths
FewMethodSets == {{}, {"get"}, {"delete"}, {"post", "put"}}

\* every one-path document with any set of methods, and every document of at
\* most MaxPaths paths with the method sets above

PathLists ==
    {[i \in 1..Len(keys) |-> PathEntry(keys[i], ms[i])] :
        keys \in {<<k>> : k \in PathKeys}, ms \in {<<m>> : m \in SUBSET Methods}}
    \cup UNION {{[i \in 1..Len(keys) |-> PathEntry(keys[i], ms[i])] :
                    ms \in [1..Len(keys) -> FewMethodSets]} :
                 keys \in DistinctSeqs(PathKeys, MaxPaths)}

PathDocs ==
    {[openapi |-> BaseVersion, components |-> BaseComponents]}
    \cup {[openapi |-> BaseVersion, paths |-> p, components |-> BaseComponents] :
             p \in PathLists}

\* --- documents that differ in their schema graph ---
\* the schemas object of a choice f of a shape, or Undefined, for every name
SchemasOf(f) == [n \in {m \in DOMAIN f : ~IsUndefined(f[m])} |-> f[n]]

\* objects whose properties are plain references, primitives, absent names
GraphShapes ==
    {Undefined, Prim}
    \cup {Obj(<<Ref(m)>>) : m \in GraphNames}
    \cup {Obj(<<Ref(e[1]), Ref(e[2])>>) : e \in {d \in GraphNames \X GraphNames : d[1] # d[2]}}

GraphSchemas == {SchemasOf(f) : f \in [GraphNames -> GraphShapes]}

\* every shape of a schema and of a property, for the schema named A
VariedShapes ==
    {Coll(Prim), Obj(<<>>), Obj(<<Prim>>), Obj(<<Coll(Prim)>>),
     Obj(<<AllOf(<<Obj(<<>>)>>)>>)}
    \cup {Ref(m) : m \in GraphNames}
    \cup {Coll(Ref(m)) : m \in GraphNames}
    \cup {AllOf(<<Ref(m)>>) : m \in GraphNames}
    \cup {Obj(<<Coll(Ref(m))>>) : m \in GraphNames}
    \cup {Obj(<<Prim, Coll(Ref(m))>>) : m \in GraphNames}
    \cup {Obj(<<Obj(<<Ref(m)>>)>>) : m \in GraphNames}
    \cup {Obj(<<AllOf(<<Ref(m), Ref(k)>>)>>) : m \in GraphNames, k \in GraphNames}

ShapeSchemas ==
    {SchemasOf((A :> a) @@ (B :> b) @@ (C :> c)) :
        a \in VariedShapes,
        b \in {Undefined, Prim, Obj(<<Ref(C)>>), Coll(Ref(C))},
        c \in {Undefined, Prim, Obj(<<>>)}}

SchemaDocs ==
    {[openapi |-> BaseVersion, paths |-> BasePaths],
     [openapi |-> BaseVersion, paths |-> BasePaths, components |-> [info |-> "none"]]}
    \cup {[openapi |-> BaseVersion, paths |-> BasePaths, components |-> [schemas |-> g]] :
             g \in GraphSchemas \cup ShapeSchemas}

\* --- documents that differ in the one operation they have ---
\* one schema name for every place of an operation that can hold a schema
InParameter == <<"InParameter">>
InRequestJson == <<"InRequestJson">>
InRequestXml == <<"InRequestXml">>
In200Json == <<"In200Json">>
In200Xml == <<"In200Xml">>
In404Json == <<"In404Json">>

SiteNames == {InParameter, InRequestJson, InRequestXml, In200Json, In200Xml, In404Json}

SiteSchemas == [n \in SiteNames |-> Prim]

\* the media-type entry of a content object, or no entry
MediaOptions(type, schemas) ==
    {[t \in {} |-> Undefined]} \cup {type :> [schema |-> x] : x \in schemas}

ContentOptions(jsonName, xmlName) ==
    {("text/plain" :> [schema |-> Prim]) @@ j @@ x :
        j \in MediaOptions("application/json",
                           {Ref(jsonName), Coll(Ref(jsonName)), Coll(Prim)}),
        x \in MediaOptions("application/xml", {Ref(xmlName)})}

ParameterOptions ==
    {[t \in {} |-> Undefined]}
    \cup {[parameters |-> p] :
            p \in {<<[name |-> "id", schema |-> Prim]>>,
                   <<[name |-> "id", schema |-> Ref(InParameter)]>>,
                   <<[name |-> "id", schema |-> Coll(Ref(InParameter))]>>,
                   <<[name |-> "id"], [name |-> "x", schema |-> Ref(InParameter)]>>}}

RequestBodyOptions ==
    {[t \in {} |-> Undefined], [requestBody |-> [description |-> "none"]]}
    \cup {[requestBody |-> [content |-> c]] : c \in ContentOptions(InRequestJson, InRequestXml)}

Response200Options ==
    {[t \in {} |-> Undefined], "200" :> [description |-> "ok"]}
    \cup {"200" :> [content |-> c] : c \in ContentOptions(In200Json, In200Xml)}

Response404Options ==
    {"404" :> [description |-> "none"],
     "404" :> [content |-> JsonContent(Ref(In404Json))]}

ResponsesOptions ==
    {[t \in {} |-> Undefined]}
    \cup {[responses |-> ok @@ bad] : ok \in Response200Options, bad \in Response404Options}

Operations ==
    {[tags |-> <<>>] @@ p @@ b @@ r :
        p \in ParameterOptions, b \in RequestBodyOptions, r \in ResponsesOptions}

OperationDocs ==
    {[openapi |-> BaseVersion,
      paths |-> <<[key |-> <<"/", "u">>, item |-> [post |-> op]]>>,
      components |-> [schemas |-> SiteSchemas]] : op \in Operations}

\* --- documents that differ in their version ---
VersionChars == {"3", "0", "."}

RECURSIVE StringsUpTo(_, _)
StringsUpTo(chars, n) ==
    IF n = 0 THEN {<<>>}
    ELSE LET shorter == StringsUpTo(chars, n - 1)
         IN  shorter \cup {Append(t, c) : t \in {q \in shorter : Len(q) = n - 1}, c \in chars}

Versions == StringsUpTo(VersionChars, MaxVersionLen)

VersionDocs ==
    {[info |-> "none"], [paths |-> BasePaths, components |-> BaseComponents]}
    \cup {[openapi |-> v] : v \in Versions}
    \cup {[openapi |-> v, paths |-> BasePaths, components |-> BaseComponents] : v \in Versions}

(***************************************************************************)
(* The service: one instance, constructed from a document and then queried *)
(* any number of times in any order.                                       *)
(***************************************************************************)
VARIABLES
    json,      \* the document the text handed to the constructor denotes
    spec,      \* this.spec
    instance,  \* "none" before `new`, then "ready", or "failed" when `new` threw
    call,      \* the last query called
    result,    \* what the last query returned or threw
    previous   \* the name of the query called before the last one

vars == <<json, spec, instance, call, result, previous>>

NoCall == [name |-> "none"]

NoResult == [status |-> "none"]

InitOn(docs) ==
    /\ json \in docs
    /\ spec = Undefined
    /\ instance = "none"
    /\ call = NoCall
    /\ result = NoResult
    /\ previous = "none"

\* constructor(json, typesGuard)
Construct ==
    /\ instance = "none"
    /\ spec' = json
    /\ instance' = IF constructorThrows(json) THEN "failed" ELSE "ready"
    /\ UNCHANGED <<json, call, result, previous>>

\* getEndpoints() with a sort that reorders the paths of the document itself
CallGetEndpoints_SortInPlace ==
    /\ instance = "ready"
    /\ call' = [name |-> "getEndpoints"]
    /\ result' = getEndpoints(spec)
    /\ spec' = IF "paths" \notin DOMAIN spec THEN spec
               ELSE [spec EXCEPT !.paths =
                        LET sorted == sort(pathKeys(spec))
                        IN  [i \in 1..Len(sorted) |->
                                CHOOSE e \in Range(spec.paths) : e.key = sorted[i]]]
    /\ previous' = call.name
    /\ UNCHANGED <<json, instance>>

CallGetEndpoints ==
    /\ instance = "ready"
    /\ call' = [name |-> "getEndpoints"]
    /\ result' = getEndpoints(spec)
    /\ previous' = call.name
    /\ UNCHANGED <<json, spec, instance>>

CallGetTagsByEndpoint(endpoint) ==
    /\ instance = "ready"
    /\ call' = [name |-> "getTagsByEndpoint", endpoint |-> endpoint]
    /\ result' = getTagsByEndpoint(spec, endpoint)
    /\ previous' = call.name
    /\ UNCHANGED <<json, spec, instance>>

CallGetSchemasByEndpoints(endpoints) ==
    /\ instance = "ready"
    /\ call' = [name |-> "getSchemasByEndpoints", endpoints |-> endpoints]
    /\ result' = getSchemasByEndpoints(spec, endpoints)
    /\ previous' = call.name
    /\ UNCHANGED <<json, spec, instance>>

CallGetOperationsByEndpoints(endpoints) ==
    /\ instance = "ready"
    /\ call' = [name |-> "getOperationsByEndpoints", endpoints |-> endpoints]
    /\ result' = getOperationsByEndpoints(spec, endpoints)
    /\ previous' = call.name
    /\ UNCHANGED <<json, spec, instance>>

Next ==
    \/ Construct
    \/ CallGetEndpoints
    \/ \E endpoint \in EndpointStrings : CallGetTagsByEndpoint(endpoint)
    \/ \E endpoints \in EndpointSets : CallGetSchemasByEndpoints(endpoints)
    \/ \E endpoints \in EndpointSets : CallGetOperationsByEndpoints(endpoints)

\* documents that differ in their paths
InitPaths == InitOn(PathDocs)

SpecPaths == InitPaths /\ [][Next]_vars

\* documents that differ in their schema graph
InitSchemas == InitOn(SchemaDocs)

SpecSchemas == InitSchemas /\ [][Next]_vars

\* documents that differ in their operation
InitOperations == InitOn(OperationDocs)

SpecOperations == InitOperations /\ [][Next]_vars

\* documents that differ in their version
InitVersions == InitOn(VersionDocs)

SpecVersions == InitVersions /\ [][Next]_vars

(***************************************************************************)
(* Vocabulary of the properties, stated on the document itself.            *)
(***************************************************************************)
Min(S) == CHOOSE i \in S : \A j \in S : i <= j

\* e is a suffix of key
IsSuffix(e, key) == \E p \in 0..Len(key) : SubSeq(key, p + 1, Len(key)) = e

\* GET if present, else POST, else PUT, else DELETE, else none
ByPriority(item) ==
    IF "get" \in DOMAIN item THEN item.get
    ELSE IF "post" \in DOMAIN item THEN item.post
    ELSE IF "put" \in DOMAIN item THEN item.put
    ELSE IF "delete" \in DOMAIN item THEN item.delete
    ELSE Undefined

\* the operation of the first path key, in insertion order, that ends with e
FirstSuffixOperation(doc, e) ==
    IF "paths" \notin DOMAIN doc THEN Undefined
    ELSE LET hits == {i \in 1..Len(doc.paths) : IsSuffix(e, doc.paths[i].key)}
         IN  IF hits = {} THEN Undefined ELSE ByPriority(doc.paths[Min(hits)].item)

TagsOf(operation) ==
    IF IsUndefined(operation) \/ "tags" \notin DOMAIN operation THEN <<>> ELSE operation.tags

Queried(name) == instance = "ready" /\ call.name = name

\* C4: operationForEndpoint(e) is the GET, else POST, else PUT, else DELETE
\* operation of the first path key, in insertion order, that ends with e, and
\* none when no key ends with e or when that first path item has none of the
\* four methods (seen through tagsForEndpoint and operationsForEndpoints({e}))
C4_OperationResolution ==
    /\ Queried("getTagsByEndpoint") =>
          /\ result.status = "ok"
          /\ result.value = TagsOf(FirstSuffixOperation(json, call.endpoint))
    /\ (Queried("getOperationsByEndpoints") /\ Len(call.endpoints) = 1) =>
          LET e == call.endpoints[1]
              expected == FirstSuffixOperation(json, e)
          IN  /\ result.status = "ok"
              /\ IsUndefined(expected) => DOMAIN result.value = {}
              /\ ~IsUndefined(expected) =>
                    DOMAIN result.value = {e} /\ result.value[e] = expected

\* the first key that ends with "/u" is "/a/u", whose item has POST and PUT
\* but no GET; a later key is "/u" itself and has a GET: the POST of "/a/u"
C4_Witness ==
    /\ Queried("getTagsByEndpoint")
    /\ call.endpoint = <<"/", "u">>
    /\ "paths" \in DOMAIN json
    /\ Len(json.paths) = 2
    /\ json.paths[1].key = <<"/", "a", "/", "u">>
    /\ DOMAIN json.paths[1].item = {"summary", "post", "put"}
    /\ json.paths[2].key = <<"/", "u">>
    /\ "get" \in DOMAIN json.paths[2].item
    /\ result = Ok(<<<<"/", "a", "/", "u">>, <<"post">>>>)

\* C10: for a path p that listEndpoints returns, tagsForEndpoint(p) are the
\* tags of the operation of the path item registered under exactly p
C10_ListedPathResolvesToItself ==
    (/\ Queried("getTagsByEndpoint")
     /\ "paths" \in DOMAIN json
     /\ \E i \in 1..Len(json.paths) : json.paths[i].key = call.endpoint)
    => LET i == CHOOSE n \in 1..Len(json.paths) : json.paths[n].key = call.endpoint
       IN  result = Ok(TagsOf(ByPriority(json.paths[i].item)))

\* C10 as amended: for a path p that listEndpoints returns, tagsForEndpoint(p)
\* are the tags of the operation of the first key, in insertion order, that
\* ends with p: the item registered under exactly p when no other key that
\* ends with p comes earlier
C10_ListedPathResolvesToFirstSuffixMatch ==
    (/\ Queried("getTagsByEndpoint")
     /\ "paths" \in DOMAIN json
     /\ \E i \in 1..Len(json.paths) : json.paths[i].key = call.endpoint)
    => LET own == CHOOSE n \in 1..Len(json.paths) : json.paths[n].key = call.endpoint
           earlier == {n \in 1..(own - 1) : IsSuffix(call.endpoint, json.paths[n].key)}
           used == IF earlier = {} THEN own ELSE Min(earlier)
       IN  result = Ok(TagsOf(ByPriority(json.paths[used].item)))

\* "/u" is registered before "/a/u", which ends with it: the GET of "/u"
C10_Witness ==
    /\ Queried("getTagsByEndpoint")
    /\ call.endpoint = <<"/", "u">>
    /\ "paths" \in DOMAIN json
    /\ Len(json.paths) = 2
    /\ json.paths[1].key = <<"/", "u">>
    /\ json.paths[2].key = <<"/", "a", "/", "u">>
    /\ "get" \in DOMAIN json.paths[1].item
    /\ "get" \in DOMAIN json.paths[2].item
    /\ result = Ok(<<<<"/", "u">>, <<"get">>>>)

\* the substring before the first "." of a version
MajorOf(version) ==
    LET dots == {i \in 1..Len(version) : version[i] = "."}
    IN  IF dots = {} THEN version ELSE SubSeq(version, 1, Min(dots) - 1)

UnsupportedVersion(doc) ==
    \/ "openapi" \notin DOMAIN doc
    \/ doc.openapi = <<>>
    \/ MajorOf(doc.openapi) # <<"3">>

AnyQuery ==
    \/ CallGetEndpoints
    \/ \E endpoint \in EndpointStrings : CallGetTagsByEndpoint(endpoint)
    \/ \E endpoints \in EndpointSets : CallGetSchemasByEndpoints(endpoints)
    \/ \E endpoints \in EndpointSets : CallGetOperationsByEndpoints(endpoints)

\* C5: construction fails exactly when the version is absent or empty or its
\* part before the first "." is not "3", whatever else the document holds;
\* after a failed construction no query runs or has run
C5_ConstructionChecksMajorVersion ==
    /\ instance # "none" => (instance = "failed" <=> UnsupportedVersion(json))
    /\ instance = "failed" => call = NoCall /\ result = NoResult /\ ~ENABLED AnyQuery

\* version "30": it starts with 3 and its major version is not "3"
C5_Witness ==
    /\ instance = "failed"
    /\ "openapi" \in DOMAIN json
    /\ json.openapi = <<"3", "0">>

\* the union of mappings that agree where they overlap
UnionOf(mappings) ==
    [key \in UNION {DOMAIN m : m \in mappings} |->
        (CHOOSE m \in mappings : key \in DOMAIN m)[key]]

Resolvable(doc, endpoints) ==
    {e \in Range(endpoints) : ~IsUndefined(FirstSuffixOperation(doc, e))}

\* C7: schemasForEndpoints(E) is the union of schemasForEndpoints({e}) over
\* the endpoints e of E whose operation resolves, and operationsForEndpoints(E)
\* maps exactly those e to their operation; an endpoint that does not resolve
\* raises nothing and adds nothing, and the empty E gives the empty mapping;
\* the call fails only when the call for one of its resolvable endpoints does
C7_UnresolvableEndpointsSkipped ==
    /\ Queried("getSchemasByEndpoints") =>
          LET resolvable == Resolvable(json, call.endpoints)
              single(e) == getSchemasByEndpoints(json, <<e>>)
          IN  /\ \A e \in Range(call.endpoints) \ resolvable : single(e) = Ok(<<>>)
              /\ (\A e \in resolvable : single(e).status = "ok") =>
                    /\ result.status = "ok"
                    /\ DOMAIN result.value = UNION {DOMAIN single(e).value : e \in resolvable}
                    /\ result.value = UnionOf({single(e).value : e \in resolvable})
              /\ (\E e \in resolvable : single(e).status # "ok") => result.status # "ok"
    /\ Queried("getOperationsByEndpoints") =>
          /\ result.status = "ok"
          /\ DOMAIN result.value = Resolvable(json, call.endpoints)
          /\ \A e \in DOMAIN result.value : result.value[e] = FirstSuffixOperation(json, e)

\* E = {"/u", "/a/u"}: "/u" resolves to a POST that refers to B, "/a/u"
\* matches no path, and the result is the schemas of "/u" alone
C7_Witness ==
    /\ Queried("getSchemasByEndpoints")
    /\ call.endpoints = <<<<"/", "u">>, <<"/", "a", "/", "u">>>>
    /\ Resolvable(json, call.endpoints) = {<<"/", "u">>}
    /\ result.status = "ok"
    /\ DOMAIN result.value = {B}

\* the result of a call on a fresh instance of the document
FreshResult(doc, c) ==
    CASE c.name = "getEndpoints" -> getEndpoints(doc)
      [] c.name = "getTagsByEndpoint" -> getTagsByEndpoint(doc, c.endpoint)
      [] c.name = "getSchemasByEndpoints" -> getSchemasByEndpoints(doc, c.endpoints)
      [] c.name = "getOperationsByEndpoints" -> getOperationsByEndpoints(doc, c.endpoints)
      [] OTHER -> NoResult

\* C8: after every query, in any order and with any repetition, the loaded
\* document is the one the instance was constructed from and the result is
\* the one the same call gives as the first call on a fresh instance
C8_QueriesArePure ==
    instance = "ready" => spec = json /\ result = FreshResult(json, call)

\* schemasForEndpoints(E) right after operationsForEndpoints, with a result
C8_Witness ==
    /\ Queried("getSchemasByEndpoints")
    /\ previous = "getOperationsByEndpoints"
    /\ Cardinality(Resolvable(json, call.endpoints)) = 2
    /\ result.status = "ok"
    /\ DOMAIN result.value = {A, B}

\* the name a reference points to: what follows the final "/"
NameOfRef(reference) == <<reference.ref[Len(reference.ref)]>>

\* what a body schema contributes: itself when a Reference, its items when a
\* Collection whose items is a Reference
BodyNames(schema) ==
    IF isReference(schema) THEN {NameOfRef(schema)}
    ELSE IF isCollection(schema) /\ "items" \in DOMAIN schema /\ isReference(schema.items)
    THEN {NameOfRef(schema.items)}
    ELSE {}

\* the names at the three places of an operation that are read
DirectNames(operation) ==
    (IF "parameters" \in DOMAIN operation
     THEN {NameOfRef(z.schema) :
              z \in {y \in Range(operation.parameters) :
                        "schema" \in DOMAIN y /\ isReference(y.schema)}}
     ELSE {})
    \cup (IF /\ "requestBody" \in DOMAIN operation
             /\ "content" \in DOMAIN operation.requestBody
             /\ "application/json" \in DOMAIN operation.requestBody.content
          THEN BodyNames(operation.requestBody.content["application/json"].schema)
          ELSE {})
    \cup (IF /\ "responses" \in DOMAIN operation
             /\ "200" \in DOMAIN operation.responses
             /\ "content" \in DOMAIN operation.responses["200"]
             /\ "application/json" \in DOMAIN operation.responses["200"].content
          THEN BodyNames(operation.responses["200"].content["application/json"].schema)
          ELSE {})

\* C9: the names schemasForEndpoints returns for an operation over primitive
\* schemas are those of its parameters whose schema is a Reference, of its
\* request body's application/json schema and of its status-200 response's
\* application/json schema; another media type, another status, or a
\* parameter whose schema is not itself a Reference adds no name
C9_DirectReferenceSites ==
    (/\ Queried("getSchemasByEndpoints")
     /\ result.status = "ok"
     /\ Resolvable(json, call.endpoints) # {})
    => DOMAIN result.value =
           UNION {DirectNames(FirstSuffixOperation(json, e)) :
                     e \in Resolvable(json, call.endpoints)}

\* an operation with a Collection parameter, an XML request body beside the
\* JSON one, an XML 200 response and a JSON 404 response, all with references
C9_Witness ==
    /\ Queried("getSchemasByEndpoints")
    /\ call.endpoints = <<<<"/", "u">>>>
    /\ LET operation == FirstSuffixOperation(json, <<"/", "u">>)
       IN  /\ "parameters" \in DOMAIN operation
           /\ operation.parameters = <<[name |-> "id", schema |-> Coll(Ref(InParameter))]>>
           /\ "requestBody" \in DOMAIN operation
           /\ "content" \in DOMAIN operation.requestBody
           /\ DOMAIN operation.requestBody.content =
                  {"text/plain", "application/json", "application/xml"}
           /\ operation.requestBody.content["application/json"].schema = Coll(Ref(InRequestJson))
           /\ "responses" \in DOMAIN operation
           /\ "200" \in DOMAIN operation.responses
           /\ "content" \in DOMAIN operation.responses["200"]
           /\ DOMAIN operation.responses["200"].content = {"text/plain", "application/xml"}
           /\ "content" \in DOMAIN operation.responses["404"]
    /\ result.status = "ok"
    /\ DOMAIN result.value = {InRequestJson}

\* the names a list of schemas refers to, one level deep
NamesOfList(list) == {NameOfRef(x) : x \in {y \in Range(list) : isReference(y)}}

\* the property-scan rule: what the properties of an object schema add
ScanNames(schema) ==
    IF isObject(schema) /\ "properties" \in DOMAIN schema
    THEN UNION {IF isReference(z) THEN {NameOfRef(z)}
                ELSE IF isCollection(z) /\ "items" \in DOMAIN z /\ isReference(z.items)
                THEN {NameOfRef(z.items)}
                ELSE IF isAllOf(z) THEN NamesOfList(z.allOf)
                ELSE {} : z \in Range(schema.properties)}
    ELSE {}

\* the least set that contains S and is closed under the property-scan rule
RECURSIVE ScanClosure(_, _)
ScanClosure(schemas, S) ==
    LET more == S \cup UNION {ScanNames(schemas[n]) : n \in S \cap DOMAIN schemas}
    IN  IF more = S THEN S ELSE ScanClosure(schemas, more)

\* every name a schema definition refers to, at any depth of nesting
RECURSIVE NamesIn(_)
NamesIn(schema) ==
    IF isReference(schema) THEN {NameOfRef(schema)}
    ELSE (IF "items" \in DOMAIN schema THEN NamesIn(schema.items) ELSE {})
         \cup (IF "properties" \in DOMAIN schema
               THEN UNION {NamesIn(z) : z \in Range(schema.properties)} ELSE {})
         \cup (IF "allOf" \in DOMAIN schema
               THEN UNION {NamesIn(z) : z \in Range(schema.allOf)} ELSE {})

RECURSIVE ReachableFrom(_, _)
ReachableFrom(schemas, S) ==
    LET more == S \cup UNION {NamesIn(schemas[n]) : n \in S \cap DOMAIN schemas}
    IN  IF more = S THEN S ELSE ReachableFrom(schemas, more)

HasSchemas(doc) == "components" \in DOMAIN doc /\ "schemas" \in DOMAIN doc.components

Acyclic(schemas) ==
    \A n \in DOMAIN schemas : n \notin ReachableFrom(schemas, NamesIn(schemas[n]))

RECURSIVE AllOfOnlyReferences(_)
AllOfOnlyReferences(schema) ==
    /\ "allOf" \in DOMAIN schema => \A z \in Range(schema.allOf) : isReference(z)
    /\ "items" \in DOMAIN schema => AllOfOnlyReferences(schema.items)
    /\ "properties" \in DOMAIN schema =>
          \A z \in Range(schema.properties) : AllOfOnlyReferences(z)

\* the names the operations of the resolvable endpoints refer to directly
RootNames(doc, endpoints) ==
    UNION {DirectNames(FirstSuffixOperation(doc, e)) : e \in Resolvable(doc, endpoints)}

\* acyclic, every name that is referred to exists, every allOf element is a
\* Reference
WellFormed(doc, endpoints) ==
    /\ HasSchemas(doc)
    /\ LET schemas == doc.components.schemas
       IN  /\ Acyclic(schemas)
           /\ RootNames(doc, endpoints) \subseteq DOMAIN schemas
           /\ \A n \in DOMAIN schemas :
                 NamesIn(schemas[n]) \subseteq DOMAIN schemas /\ AllOfOnlyReferences(schemas[n])

\* C2: on an acyclic document where every name referred to exists and every
\* allOf element is a Reference, the keys of the result for an operation are
\* the least set that contains the operation's direct names and is closed
\* under the property-scan rule, and every key maps to components.schemas[key]
C2_TwoPassIsClosure ==
    (Queried("getSchemasByEndpoints") /\ WellFormed(json, call.endpoints))
    => /\ result.status = "ok"
       /\ DOMAIN result.value =
              ScanClosure(json.components.schemas, RootNames(json, call.endpoints))
       /\ \A key \in DOMAIN result.value : result.value[key] = json.components.schemas[key]

\* the operation refers to A, a property of A to B, a property of B to C
C2_Witness ==
    /\ Queried("getSchemasByEndpoints")
    /\ call.endpoints = <<<<"/", "u">>>>
    /\ WellFormed(json, call.endpoints)
    /\ json.components.schemas[A] = Obj(<<Ref(B)>>)
    /\ json.components.schemas[B] = Obj(<<Ref(C)>>)
    /\ json.components.schemas[C] = Prim
    /\ result.status = "ok"
    /\ DOMAIN result.value = {A, B, C}

\* the names a schema definition of the result refers to: through a property
\* of an Object, the items of a Collection, the list of a Composition
HeldNames(schema) ==
    ScanNames(schema)
    \cup (IF isCollection(schema) /\ "items" \in DOMAIN schema /\ isReference(schema.items)
          THEN {NameOfRef(schema.items)} ELSE {})
    \cup (IF isAllOf(schema) THEN NamesOfList(schema.allOf) ELSE {})

\* C3: on an acyclic document where every name referred to exists, every name
\* that a schema definition of the result refers to is a key of the result
C3_ResultClosedUnderReferences ==
    (/\ Queried("getSchemasByEndpoints")
     /\ WellFormed(json, call.endpoints)
     /\ result.status = "ok")
    => \A key \in DOMAIN result.value : HeldNames(result.value[key]) \subseteq DOMAIN result.value

\* C6: a result of schemasForEndpoints never has a key that is absent from
\* components.schemas: a reference to such a name ends the call in a failure
C6_MissingSchemaFails ==
    (Queried("getSchemasByEndpoints") /\ result.status = "ok" /\ HasSchemas(json))
    => DOMAIN result.value \subseteq DOMAIN json.components.schemas

\* a name is on a cycle of object schemas that refer to each other through
\* their properties
OnObjectCycle(schemas, n) ==
    /\ n \in DOMAIN schemas
    /\ n \in ScanClosure(schemas, ScanNames(schemas[n]))

\* C1: when the operation of the endpoint refers directly to a schema on a
\* cycle of object schemas, schemasForEndpoints({endpoint}) returns, and its
\* keys are the names reachable from the operation
C1_CycleSafe ==
    (/\ Queried("getSchemasByEndpoints")
     /\ Len(call.endpoints) = 1
     /\ HasSchemas(json)
     /\ \E n \in RootNames(json, call.endpoints) : OnObjectCycle(json.components.schemas, n))
    => /\ result.status = "ok"
       /\ DOMAIN result.value =
              ScanClosure(json.components.schemas, RootNames(json, call.endpoints))

====
